---------------------------- MODULE Spec2Model ----------------------------
(***************************************************************************)
(* Model of src/system/OS_info/os_info_windows.cpp (infoware, Windows).    *)
(*                                                                         *)
(* Strings are sequences of one-character strings; NUL stands for '\0'.    *)
(* Every resolver is modelled by what it calls, in order: its result is a  *)
(* record [ret, log, ...] whose log is the sequence of system calls made,  *)
(* scope-guard destructors included.                                       *)
(***************************************************************************)
EXTENDS Integers, Sequences, FiniteSets, TLC

VARIABLES
    ntdll,           \* external: [loaded, hasProc] - is ntdll.dll mapped, does it export RtlGetVersion
    kernelVer,       \* external: [major, minor, build] RtlGetVersion would report
    legacyName,      \* external: what the legacy resolver version_name() returns
    regName,         \* external: registry as seen by version_name_reg
    regBuild,        \* external: registry as seen by build_number
    pRtlGetVersion,  \* the function-local static of OS_info: "uninit", "null" or "fn"
    static_guard,    \* the initialisation of that static: [state, by], by the thread running it
    th_pc,           \* per thread calling OS_info(): the statement it is at
    th_seen,         \* per thread: the value of pRtlGetVersion each of its calls read
    th_result,       \* per thread: the OS_info_t its last call returned
    os_result,       \* the last OS_info() call: [done, info, resolved, log]
    os_returned,     \* the OS_info_t every OS_info() call so far returned, in order
    bn_result,       \* the last direct build_number() call
    reg_result,      \* the last direct version_name_reg() call
    wmi_pc,          \* version_name_wmi: the statement it is at
    wmi_guards,      \* version_name_wmi: the live scope guards and owning pointers, oldest first
    wmi_log,         \* version_name_wmi: the calls made so far, in order, each with its result
    wmi_records,     \* version_name_wmi: the Name of each record Next handed out, in order
    wmi_ret,         \* version_name_wmi: the local ret, and the value returned
    wmi_acq,         \* version_name_wmi: resources acquired so far, per kind
    wmi_rel          \* version_name_wmi: releases made so far, per kind

wmiVars == <<wmi_pc, wmi_guards, wmi_log, wmi_records, wmi_ret, wmi_acq, wmi_rel>>

thVars == <<th_pc, th_seen, th_result>>

vars == <<ntdll, kernelVer, legacyName, regName, regBuild, pRtlGetVersion, static_guard, thVars,
          os_result, os_returned, bn_result, reg_result, wmiVars>>

envVars == <<ntdll, kernelVer, legacyName, regName, regBuild>>

-----------------------------------------------------------------------------
(* Bounds of the model *)

\* longest ProductName / legacy name enumerated over NameAlphabet
MaxNameLen == 4
\* longest BuildLabEx value enumerated over LabAlphabet
MaxLabLen == 4
\* most records the query iterator hands out before it ends
MaxRecords == 2
\* most OS_info() calls made in one run of the process, and by one thread
MaxCalls == 3
\* threads calling OS_info() concurrently
NThreads == 2

-----------------------------------------------------------------------------
(* Characters and strings *)

NUL == "NUL"
Dot == "."

RECURSIVE SeqsUpTo(_, _)
SeqsUpTo(S, n) ==
    IF n = 0 THEN {<<>>}
    ELSE LET shorter == SeqsUpTo(S, n - 1)
         IN shorter \cup {Append(s, c) : s \in {t \in shorter : Len(t) = n - 1}, c \in S}

Windows10Pro == <<"W","i","n","d","o","w","s"," ","1","0"," ","P","r","o">>
Windows11Pro == <<"W","i","n","d","o","w","s"," ","1","1"," ","P","r","o">>
Windows10ProZ == Windows10Pro \o <<NUL>>
Win10Twice == <<"W"," ","1","0"," ","1","0">>
Windows7 == <<"W","i","n","d","o","w","s"," ","7">>

BuildLabExFull ==
    <<"2","2","0","0","0",".","1",".","a","m","d","6","4","f","r","e",".",
      "c","o","_","r","e","l","e","a","s","e",".",
      "2","1","0","6","0","4","-","1","6","2","8">>
Server2019Full ==
    <<"M","i","c","r","o","s","o","f","t"," ","W","i","n","d","o","w","s"," ","S","e","r","v","e","r"," ","2",
      "0","1","9"," ","S","t","a","n","d","a","r","d","|","C",":","\\","W","i","n","d","o","w","s","|","\\","D","e","v","i","c","e","\\","H","a","r","d","d","i","s","k","0">>
Server2019 == <<"M","i","c","r","o","s","o","f","t"," ","W","i","n","d","o","w","s"," ","S","e","r","v","e","r"," ","2","0","1","9"," ","S","t","a","n","d","a","r","d">>

BuildLabExOneToken == <<"2","2","0","0","0">>

-----------------------------------------------------------------------------
(* The registry, as the two resolvers call it *)

ERROR_SUCCESS == 0
ERROR_FILE_NOT_FOUND == 2
ERROR_MORE_DATA == 234

\* HKEY hkey{}: the null handle; an opened key is handle 1
NullHKey == 0
OpenedHKey == 1

NoValue == [present |-> FALSE, data |-> <<>>]
Value(d) == [present |-> TRUE, data |-> d]
NoDword == [present |-> FALSE, val |-> 0]
Dword(n) == [present |-> TRUE, val |-> n]

\* lpData: a null pointer, or a buffer of bytes
NullData == [null |-> TRUE, bytes |-> <<>>]
Buffer(b) == [null |-> FALSE, bytes |-> b]

\* std::string s(n, {}): n NUL characters
ZeroString(n) == [i \in 1..n |-> NUL]

\* RegOpenKeyExA(HKEY_LOCAL_MACHINE, ..., KEY_READ, &hkey): on failure hkey is left as it was
RegOpenKeyExA(canOpen, hkey) ==
    IF canOpen THEN [status |-> ERROR_SUCCESS, hkey |-> OpenedHKey]
    ELSE [status |-> ERROR_FILE_NOT_FOUND, hkey |-> hkey]

\* RegQueryValueExA(hkey, name, nullptr, nullptr, lpData, &cbData) on a string value v:
\* with lpData null it reports the size; with a buffer too small it fails with
\* ERROR_MORE_DATA; else it copies the value to the front of the buffer.
RegQueryValueExA(v, lpData, cbData) ==
    IF ~v.present THEN [status |-> ERROR_FILE_NOT_FOUND, data |-> lpData, cb |-> cbData]
    ELSE IF lpData.null THEN [status |-> ERROR_SUCCESS, data |-> lpData, cb |-> Len(v.data)]
    ELSE IF Len(v.data) > cbData THEN [status |-> ERROR_MORE_DATA, data |-> lpData, cb |-> Len(v.data)]
    ELSE [status |-> ERROR_SUCCESS,
          data |-> Buffer(v.data \o SubSeq(lpData.bytes, Len(v.data) + 1, Len(lpData.bytes))),
          cb |-> Len(v.data)]

\* RegQueryValueExA(hkey, "UBR", ..., &ubr, &ubr_size) on a DWORD value; ubr is 0 before
RegQueryDword(v, ubr) ==
    IF v.present THEN [status |-> ERROR_SUCCESS, val |-> v.val]
    ELSE [status |-> ERROR_FILE_NOT_FOUND, val |-> ubr]

\* The scope guard of line 87: closes the key if hkey is not null
hkey_closer_guarded(hkey) == IF hkey # NullHKey THEN <<"RegCloseKey">> ELSE <<>>

hkey_closer_missing(hkey) == <<>>

\* The scope guards of lines 91 and 117: close the key
hkey_closer(hkey) == <<"RegCloseKey">>

Count(log, ev) == Cardinality({i \in 1..Len(log) : log[i] = ev})

-----------------------------------------------------------------------------
(* strtok_r and strtoul, as build_number uses them *)

\* The C string a buffer holds: the characters before its first NUL
CString(buf) ==
    LET nuls == {i \in 1..Len(buf) : buf[i] = NUL}
    IN IF nuls = {} THEN buf
       ELSE SubSeq(buf, 1, (CHOOSE i \in nuls : \A j \in nuls : i <= j) - 1)

RECURSIVE SkipDelims(_, _)
SkipDelims(s, p) == IF p <= Len(s) /\ s[p] = Dot THEN SkipDelims(s, p + 1) ELSE p

RECURSIVE ScanToken(_, _)
ScanToken(s, p) == IF p <= Len(s) /\ s[p] # Dot THEN ScanToken(s, p + 1) ELSE p

\* strtok_r(str, ".", &ctx) on the C string s, scanning from position ctx:
\* skips delimiters, returns the run up to the next delimiter (null at the end),
\* and leaves ctx after that delimiter
strtok_r(s, ctx) ==
    LET b == SkipDelims(s, ctx)
    IN IF b > Len(s) THEN [null |-> TRUE, str |-> <<>>, ctx |-> b]
       ELSE LET e == ScanToken(s, b)
            IN [null |-> FALSE, str |-> SubSeq(s, b, e - 1),
                ctx |-> IF e <= Len(s) THEN e + 1 ELSE e]

Digits == <<"0","1","2","3","4","5","6","7","8","9">>
IsDigit(c) == \E i \in 1..10 : Digits[i] = c
DigitVal(c) == (CHOOSE i \in 1..10 : Digits[i] = c) - 1
IsSpace(c) == c \in {" ", "\t", "\n", "\r", "\f"}

RECURSIVE SkipSpace(_, _)
SkipSpace(s, p) == IF p <= Len(s) /\ IsSpace(s[p]) THEN SkipSpace(s, p + 1) ELSE p

\* the digits from position p on, accumulated in base 10; over is set once the
\* value no longer fits an unsigned long of 32 bits
RECURSIVE AccumulateDigits(_, _, _)
AccumulateDigits(s, p, acc) ==
    IF p <= Len(s) /\ IsDigit(s[p])
    THEN LET d == DigitVal(s[p])
         IN IF acc.over \/ acc.val > 429496729 \/ (acc.val = 429496729 /\ d > 5)
            THEN AccumulateDigits(s, p + 1, [val |-> 0, over |-> TRUE])
            ELSE AccumulateDigits(s, p + 1, [val |-> acc.val * 10 + d, over |-> FALSE])
    ELSE acc

\* std::strtoul(token, nullptr, 10), unsigned long being 32 bits wide
strtoul(s) ==
    LET p0 == SkipSpace(s, 1)
        signed == p0 <= Len(s) /\ s[p0] \in {"+", "-"}
        neg == signed /\ s[p0] = "-"
        acc == AccumulateDigits(s, IF signed THEN p0 + 1 ELSE p0, [val |-> 0, over |-> FALSE])
    IN IF acc.over THEN 65536 * 65536 - 1
       ELSE IF neg /\ acc.val # 0 THEN 65536 * 65536 - acc.val
       ELSE acc.val

-----------------------------------------------------------------------------
(* build_number, lines 85-111 *)

ParseBuildLabEx_first_token(buildlabex) ==
    LET token == strtok_r(CString(buildlabex), 1)
    IN IF ~token.null THEN strtoul(token.str) ELSE 0

\* lines 107-110: the second '.'-token of the buffer, parsed; 0 without one
ParseBuildLabEx(buildlabex) ==
    LET s == CString(buildlabex)
        first == strtok_r(s, 1)
        token == strtok_r(s, first.ctx)
    IN IF ~token.null THEN strtoul(token.str) ELSE 0

\* the guards that run when build_number returns before line 91 / after it,
\* in the order their destructors run
BuildNumberUnwindEarly(hkey) == hkey_closer_guarded(hkey)
BuildNumberUnwind(hkey) == hkey_closer(hkey) \o hkey_closer_guarded(hkey)

UbrRead_negated(q) == q.status # ERROR_SUCCESS

\* line 95: !RegQueryValueExA(hkey, "UBR", ...)
UbrRead(q) == q.status = ERROR_SUCCESS

build_number(r) ==
    LET open == RegOpenKeyExA(r.open, NullHKey)
        hkey == open.hkey
        c1 == <<"RegOpenKeyExA">>
    IN IF open.status # ERROR_SUCCESS
       THEN [ret |-> 0, exit |-> "open_failed", log |-> c1 \o BuildNumberUnwindEarly(hkey)]
       ELSE
       LET q == RegQueryDword(r.ubr, 0)
           c2 == Append(c1, "RegQueryValueExA:UBR")
       IN IF UbrRead(q)
          THEN [ret |-> q.val, exit |-> "ubr", log |-> c2 \o BuildNumberUnwind(hkey)]
          ELSE
          LET sz == RegQueryValueExA(r.lab1, NullData, 0)
              c3 == Append(c2, "RegQueryValueExA:BuildLabEx")
          IN IF sz.status # ERROR_SUCCESS
             THEN [ret |-> 0, exit |-> "size_failed", log |-> c3 \o BuildNumberUnwind(hkey)]
             ELSE
             LET fill == RegQueryValueExA(r.lab2, Buffer(ZeroString(sz.cb)), sz.cb)
                 c4 == Append(c3, "RegQueryValueExA:BuildLabEx")
             IN IF fill.status # ERROR_SUCCESS
                THEN [ret |-> 0, exit |-> "fill_failed", log |-> c4 \o BuildNumberUnwind(hkey)]
                ELSE [ret |-> ParseBuildLabEx(fill.data.bytes), exit |-> "parsed",
                      log |-> c4 \o BuildNumberUnwind(hkey)]

-----------------------------------------------------------------------------
(* version_name_reg, lines 113-127 *)

version_name_reg(r) ==
    LET open == RegOpenKeyExA(r.open, NullHKey)
        hkey == open.hkey
        c1 == <<"RegOpenKeyExA">>
    IN IF open.status # ERROR_SUCCESS
       THEN [ret |-> <<>>, exit |-> "open_failed", log |-> c1]
       ELSE
       LET sz == RegQueryValueExA(r.pn1, NullData, 0)
           c2 == Append(c1, "RegQueryValueExA:ProductName")
       IN IF sz.status # ERROR_SUCCESS
          THEN [ret |-> <<>>, exit |-> "size_failed", log |-> c2 \o hkey_closer(hkey)]
          ELSE
          LET fill == RegQueryValueExA(r.pn2, Buffer(ZeroString(sz.cb)), sz.cb)
              c3 == Append(c2, "RegQueryValueExA:ProductName")
          IN IF fill.status # ERROR_SUCCESS
             THEN [ret |-> <<>>, exit |-> "fill_failed", log |-> c3 \o hkey_closer(hkey)]
             ELSE [ret |-> fill.data.bytes, exit |-> "read", log |-> c3 \o hkey_closer(hkey)]

-----------------------------------------------------------------------------
(* OS_info, lines 131-170 *)

NullFn == "null"
RtlGetVersionFn == "fn"

\* GetProcAddress(ntdllh, "RtlGetVersion")
GetProcAddress(nt) == IF nt.hasProc THEN RtlGetVersionFn ELSE NullFn

\* lines 135-140: the initialiser of the static pRtlGetVersion
ResolveRtlGetVersion(nt) == IF nt.loaded THEN GetProcAddress(nt) ELSE NullFn

\* line 141: RTL_OSVERSIONINFOW os_version_info{}
ZeroVersionInfo == [major |-> 0, minor |-> 0, build |-> 0]

QueryVersion_unchecked(ptr, kv) == [ver |-> kv, log |-> <<"RtlGetVersion">>]

\* lines 143-144: if(pRtlGetVersion) pRtlGetVersion(&os_version_info)
QueryVersion(ptr, kv) ==
    IF ptr # NullFn THEN [ver |-> kv, log |-> <<"RtlGetVersion">>]
    ELSE [ver |-> ZeroVersionInfo, log |-> <<>>]

UseLegacy_le(major) == major <= 10
UseLegacy_inverted(major) == major >= 10

\* line 147: os_version_info.dwMajorVersion < 10
UseLegacy(major) == major < 10

IsWin11_gt(v) == v.major = 10 /\ v.minor = 0 /\ v.build > 22000

\* lines 152-154
IsWin11(v) == v.major = 10 /\ v.minor = 0 /\ v.build >= 22000

npos == -1

\* std::string::find(pat): the 0-based offset of the first occurrence, or npos
Find(s, pat) ==
    LET hits == {i \in 0..(Len(s) - Len(pat)) : SubSeq(s, i + 1, i + Len(pat)) = pat}
    IN IF hits = {} THEN npos ELSE CHOOSE i \in hits : \A j \in hits : i <= j

FixWin11Name_every_occurrence(win_name) ==
    [i \in 1..Len(win_name) |->
        IF i >= 3 /\ SubSeq(win_name, i - 2, i) = <<" ", "1", "0">> THEN "1" ELSE win_name[i]]

\* lines 157-160: win_name[pos + 2] = '1' at the first " 10"
FixWin11Name(win_name) ==
    LET pos == Find(win_name, <<" ", "1", "0">>)
    IN IF npos # pos THEN [win_name EXCEPT ![pos + 2 + 1] = "1"] ELSE win_name

\* the legacy resolver, called at line 148 and defined outside this file:
\* the display string of the legacy version facility, empty on failure
version_name(legacy) == [ret |-> legacy, log |-> <<>>]

\* lines 146-162: resolved is what the resolver returned, name what win_name ends as
ResolveName(v, legacy, rn) ==
    IF UseLegacy(v.major)
    THEN LET r == version_name(legacy)
         IN [name |-> r.ret, resolved |-> r.ret, log |-> <<"version_name">> \o r.log]
    ELSE LET r == version_name_reg(rn)
         IN [name |-> IF IsWin11(v) THEN FixWin11Name(r.ret) ELSE r.ret,
             resolved |-> r.ret,
             log |-> <<"version_name_reg">> \o r.log]

AssembleInfo_no_patch_without_name(win_name, v, patch) ==
    [family_name |-> "Windows NT", full_name |-> win_name,
     major_version |-> v.major, minor_version |-> v.minor,
     build_number |-> v.build, patch_number |-> IF win_name = <<>> THEN 0 ELSE patch]

\* lines 164-169: the OS_info_t returned
AssembleInfo(win_name, v, patch) ==
    [family_name |-> "Windows NT", full_name |-> win_name,
     major_version |-> v.major, minor_version |-> v.minor,
     build_number |-> v.build, patch_number |-> patch]

\* lines 141-169: the body of OS_info once the static is initialised
OS_info_body(ptr, kv, legacy, rn, rb) ==
    LET q == QueryVersion(ptr, kv)
        n == ResolveName(q.ver, legacy, rn)
        b == build_number(rb)
    IN [done |-> TRUE,
        info |-> AssembleInfo(n.name, q.ver, b.ret),
        resolved |-> n.resolved,
        log |-> q.log \o n.log \o <<"build_number">> \o b.log]

NoCall ==
    [done |-> FALSE, info |-> AssembleInfo(<<>>, ZeroVersionInfo, 0),
     resolved |-> <<>>, log |-> <<>>]

\* lines 135-140: the static after control has passed its declaration; the
\* initialiser runs on the first pass only
StaticInitialised(static, nt) ==
    IF static = "uninit" THEN ResolveRtlGetVersion(nt) ELSE static

PointerRead_before_initialiser(static, nt) ==
    IF static = "uninit" THEN NullFn ELSE static

\* line 143: the value of pRtlGetVersion the call tests and calls through, read
\* after the declaration at lines 135-140
PointerRead(static, nt) == StaticInitialised(static, nt)

\* the initialisation of the static: not begun, running in thread by, complete
GuardUninit == [state |-> "uninit", by |-> 0]
GuardRunning(t) == [state |-> "running", by |-> t]
GuardDone(t) == [state |-> "done", by |-> t]

\* one call of iware::system::OS_info(): the static is initialised by the first call
OS_info ==
    /\ Len(os_returned) < MaxCalls
    /\ pRtlGetVersion' = StaticInitialised(pRtlGetVersion, ntdll)
    /\ static_guard' = IF static_guard.state = "uninit" THEN GuardDone(0) ELSE static_guard
    /\ UNCHANGED thVars
    /\ os_result' = OS_info_body(PointerRead(pRtlGetVersion, ntdll),
                                 kernelVer, legacyName, regName, regBuild)
    /\ os_returned' = Append(os_returned, os_result'.info)
    /\ UNCHANGED <<envVars, bn_result, reg_result, wmiVars>>

Threads == 1..NThreads

StaticReady_unsynchronised == static_guard.state # "uninit"

\* line 135: control passes the declaration of an initialised static; while the
\* initialiser runs in another thread, a thread entering the declaration waits
StaticReady == static_guard.state = "done"

threadFrame == <<envVars, os_result, os_returned, bn_result, reg_result, wmiVars>>

\* line 135, thread t enters the declaration first: it runs the initialiser
ThBeginInit(t) ==
    /\ th_pc[t] = "decl"
    /\ Len(th_seen[t]) < MaxCalls
    /\ static_guard.state = "uninit"
    /\ static_guard' = GuardRunning(t)
    /\ th_pc' = [th_pc EXCEPT ![t] = "init"]
    /\ UNCHANGED <<pRtlGetVersion, th_seen, th_result, threadFrame>>

\* lines 135-140, thread t: the lambda returns and the static holds its value
ThFinishInit(t) ==
    /\ th_pc[t] = "init"
    /\ pRtlGetVersion' = ResolveRtlGetVersion(ntdll)
    /\ static_guard' = GuardDone(t)
    /\ th_pc' = [th_pc EXCEPT ![t] = "read"]
    /\ UNCHANGED <<th_seen, th_result, threadFrame>>

\* line 135, thread t passes the declaration of the initialised static
ThPassDeclaration(t) ==
    /\ th_pc[t] = "decl"
    /\ Len(th_seen[t]) < MaxCalls
    /\ StaticReady
    /\ th_pc' = [th_pc EXCEPT ![t] = "read"]
    /\ UNCHANGED <<pRtlGetVersion, static_guard, th_seen, th_result, threadFrame>>

\* lines 141-169, thread t: reads the pointer, and the rest of the call
ThCall(t) ==
    /\ th_pc[t] = "read"
    /\ th_seen' = [th_seen EXCEPT ![t] = Append(@, pRtlGetVersion)]
    /\ th_result' = [th_result EXCEPT ![t] =
           OS_info_body(pRtlGetVersion, kernelVer, legacyName, regName, regBuild).info]
    /\ th_pc' = [th_pc EXCEPT ![t] = "decl"]
    /\ UNCHANGED <<pRtlGetVersion, static_guard, threadFrame>>

\* build_number() on its own
CallBuildNumber ==
    /\ bn_result' = [done |-> TRUE, r |-> build_number(regBuild)]
    /\ UNCHANGED <<envVars, pRtlGetVersion, static_guard, thVars, os_result, os_returned, reg_result, wmiVars>>

\* version_name_reg() on its own
CallVersionNameReg ==
    /\ reg_result' = [done |-> TRUE, r |-> version_name_reg(regName)]
    /\ UNCHANGED <<envVars, pRtlGetVersion, static_guard, thVars, os_result, os_returned, bn_result, wmiVars>>

-----------------------------------------------------------------------------
(* version_name_wmi, lines 27-83, one action per statement that can fail *)

S_OK == 0
S_FALSE == 1
E_FAIL == -2147467259
RPC_E_CHANGED_MODE == -2147417850
RPC_E_TOO_LATE == -2147417831

FAILED(hr) == hr < 0

Resources == {"com", "locator", "services", "iterator", "record", "variant"}

\* what the destructor of each guard or owning pointer calls
ReleaseCall(g) ==
    CASE g = "com" -> "CoUninitialize"
      [] g = "locator" -> "IWbemLocator::Release"
      [] g = "services" -> "IWbemServices::Release"
      [] g = "iterator" -> "IEnumWbemClassObject::Release"
      [] g = "record" -> "IWbemClassObject::Release"
      [] g = "variant" -> "VariantClear"

\* a call made, with the HRESULT it returned (S_OK for a call that returns none)
Call(name, hr) == [call |-> name, hr |-> hr]

Unwind_in_construction_order(gs) == [i \in 1..Len(gs) |-> Call(ReleaseCall(gs[i]), S_OK)]

\* leaving a scope: the destructors of gs run, the youngest first
Unwind(gs) == [i \in 1..Len(gs) |-> Call(ReleaseCall(gs[Len(gs) + 1 - i]), S_OK)]

Released(rel, gs) ==
    [r \in Resources |-> rel[r] + Cardinality({i \in 1..Len(gs) : gs[i] = r})]

\* narrowen_bstring, defined outside this file: the narrow string of a BSTR
narrowen_bstring(bstr) == [i \in 1..Len(bstr) |-> bstr[i]]

\* return v; from anywhere in the function: every live guard is destroyed
WmiReturn(v) ==
    /\ wmi_pc' = "returned"
    /\ wmi_ret' = v
    /\ wmi_log' = wmi_log \o Unwind(wmi_guards)
    /\ wmi_rel' = Released(wmi_rel, wmi_guards)
    /\ wmi_guards' = <<>>
    /\ UNCHANGED <<wmi_acq, wmi_records>>

\* a step that fails returns {}; one that succeeds goes on to statement next,
\* owning the resources got (in the order acquired)
WmiGoOn(next, calls, got) ==
    /\ wmi_pc' = next
    /\ wmi_log' = wmi_log \o calls
    /\ wmi_guards' = wmi_guards \o got
    /\ wmi_acq' = [r \in Resources |->
                     wmi_acq[r] + Cardinality({i \in 1..Len(got) : got[i] = r})]
    /\ UNCHANGED <<wmi_ret, wmi_rel>>

\* return {}; after the calls made by a step that failed
WmiFail(calls) ==
    /\ wmi_pc' = "returned"
    /\ wmi_ret' = <<>>
    /\ wmi_log' = wmi_log \o calls \o Unwind(wmi_guards)
    /\ wmi_rel' = Released(wmi_rel, wmi_guards)
    /\ wmi_guards' = <<>>
    /\ UNCHANGED <<wmi_acq, wmi_records>>

\* the names a record's Name property may hold
WmiNames == {<<>>, <<"W">>, <<"W", "|", "C">>, <<"|", "W">>, <<"W", "|", "C", "|", "D">>,
             Server2019Full}

\* what the bytes of a VARIANT nothing was stored in are read as
StaleNames == {<<>>, <<"W", "|", "C">>}

notWmi == <<envVars, pRtlGetVersion, static_guard, thVars, os_result, os_returned, bn_result, reg_result>>

NeedsRetry_any_failure(err) == FAILED(err)

\* line 29: err == RPC_E_CHANGED_MODE
NeedsRetry(err) == err = RPC_E_CHANGED_MODE

\* lines 28-33
WmiCoInitialize ==
    /\ wmi_pc = "start"
    /\ \E first \in {S_OK, S_FALSE, RPC_E_CHANGED_MODE, E_FAIL},
          second \in {S_OK, S_FALSE, E_FAIL} :
          LET retry == NeedsRetry(first)
              err == IF retry THEN second ELSE first
              calls == IF retry THEN <<Call("CoInitializeEx:MULTITHREADED", first),
                                       Call("CoInitializeEx:APARTMENTTHREADED", second)>>
                       ELSE <<Call("CoInitializeEx:MULTITHREADED", first)>>
          IN /\ IF FAILED(err) THEN WmiFail(calls)
                ELSE WmiGoOn("security", calls, <<"com">>)
             /\ UNCHANGED wmi_records
    /\ UNCHANGED notWmi

SecurityFatal_strict(init_result) == FAILED(init_result)

\* line 37: FAILED(init_result) && init_result != RPC_E_TOO_LATE
SecurityFatal(init_result) == FAILED(init_result) /\ init_result # RPC_E_TOO_LATE

\* lines 35-38
WmiInitializeSecurity ==
    /\ wmi_pc = "security"
    /\ \E init_result \in {S_OK, RPC_E_TOO_LATE, E_FAIL} :
          IF SecurityFatal(init_result)
          THEN WmiFail(<<Call("CoInitializeSecurity", init_result)>>)
          ELSE WmiGoOn("locator", <<Call("CoInitializeSecurity", init_result)>>, <<>>)
    /\ UNCHANGED <<notWmi, wmi_records>>

\* lines 40-43
WmiCreateLocator ==
    /\ wmi_pc = "locator"
    /\ \E hr \in {S_OK, E_FAIL} :
          IF FAILED(hr) THEN WmiFail(<<Call("CoCreateInstance", hr)>>)
          ELSE WmiGoOn("connect", <<Call("CoCreateInstance", hr)>>, <<"locator">>)
    /\ UNCHANGED <<notWmi, wmi_records>>

\* lines 45-49
WmiConnectServer ==
    /\ wmi_pc = "connect"
    /\ \E hr \in {S_OK, E_FAIL} :
          IF FAILED(hr) THEN WmiFail(<<Call("ConnectServer", hr)>>)
          ELSE WmiGoOn("blanket", <<Call("ConnectServer", hr)>>, <<"services">>)
    /\ UNCHANGED <<notWmi, wmi_records>>

\* lines 51-53
WmiSetProxyBlanket ==
    /\ wmi_pc = "blanket"
    /\ \E hr \in {S_OK, E_FAIL} :
          IF FAILED(hr) THEN WmiFail(<<Call("CoSetProxyBlanket", hr)>>)
          ELSE WmiGoOn("query", <<Call("CoSetProxyBlanket", hr)>>, <<>>)
    /\ UNCHANGED <<notWmi, wmi_records>>

\* lines 55-62
WmiExecQuery ==
    /\ wmi_pc = "query"
    /\ \E hr \in {S_OK, E_FAIL} :
          IF FAILED(hr) THEN WmiFail(<<Call("ExecQuery", hr)>>)
          ELSE WmiGoOn("next", <<Call("ExecQuery", hr)>>, <<"iterator">>)
    /\ UNCHANGED <<notWmi, wmi_records>>

\* lines 63-70: Next hands out one record (S_OK), or none: at the end of the
\* enumeration (S_FALSE) or on an error. Its result is not looked at, iter_result is.
WmiNext ==
    /\ wmi_pc = "next"
    /\ \E hr \in {S_OK, S_FALSE, E_FAIL}, name \in WmiNames :
          LET iter_result == IF hr = S_OK THEN 1 ELSE 0
          IN /\ iter_result = 1 => wmi_acq["record"] < MaxRecords
             /\ IF iter_result = 0
                THEN /\ WmiGoOn("after_loop", <<Call("Next", hr)>>, <<>>)
                     /\ UNCHANGED wmi_records
                ELSE /\ WmiGoOn("get", <<Call("Next", hr)>>, <<"record">>)
                     /\ wmi_records' = Append(wmi_records, name)
    /\ UNCHANGED notWmi

\* the guards of the loop body, lines 70 and 74
LoopGuards == <<"record", "variant">>

\* lines 72-77: Get's result is not looked at. When Get succeeds val is a BSTR
\* variant holding the name. When it fails val is as the stack left it: clearing
\* it frees what it seems to own (owns) or nothing, and reading val.bstrVal gives
\* the null BSTR, some readable string, or a fault.
WmiGetName ==
    /\ wmi_pc = "get"
    /\ \E hr \in {S_OK, E_FAIL}, stale \in StaleNames, owns \in BOOLEAN, fault \in BOOLEAN :
          LET got == IF FAILED(hr) THEN <<>> ELSE <<"variant">>
              acq == [wmi_acq EXCEPT !["variant"] = @ + Len(got)]
              bstrVal == IF FAILED(hr) THEN stale ELSE wmi_records[Len(wmi_records)]
          IN /\ ~FAILED(hr) => owns /\ ~fault /\ stale = <<>>
             /\ wmi_acq' = acq
             /\ IF fault
                THEN /\ wmi_pc' = "faulted"
                     /\ wmi_log' = Append(wmi_log, Call("Get", hr))
                     /\ UNCHANGED <<wmi_guards, wmi_ret, wmi_rel>>
                ELSE LET leaving == IF owns THEN LoopGuards ELSE <<"record">>
                     IN /\ wmi_pc' = "next"
                        /\ wmi_ret' = narrowen_bstring(bstrVal)
                        /\ wmi_log' = wmi_log \o <<Call("Get", hr)>> \o Unwind(LoopGuards)
                        /\ wmi_rel' = Released(wmi_rel, leaving)
                        /\ wmi_guards' = SubSeq(wmi_guards, 1, Len(wmi_guards) - 1)
    /\ UNCHANGED <<notWmi, wmi_records>>

TruncateAtSep_keeps_sep(ret) ==
    LET sep == Find(ret, <<"|">>)
    IN IF sep # npos THEN SubSeq(ret, 1, sep + 1) ELSE ret

\* lines 79-81: ret.resize(sep) at the first '|'
TruncateAtSep(ret) ==
    LET sep == Find(ret, <<"|">>)
    IN IF sep # npos THEN SubSeq(ret, 1, sep) ELSE ret

\* lines 79-82
WmiTruncateAndReturn ==
    /\ wmi_pc = "after_loop"
    /\ WmiReturn(TruncateAtSep(wmi_ret))
    /\ UNCHANGED notWmi

-----------------------------------------------------------------------------
(* The system states the calls are checked in *)

NameAlphabet == {" ", "1", "0"}
Names == SeqsUpTo(NameAlphabet, MaxNameLen) \cup {Windows10Pro, Windows10ProZ, Win10Twice}

LabAlphabet == {Dot, "1", "2", "a", NUL}
Labs == SeqsUpTo(LabAlphabet, MaxLabLen) \cup {BuildLabExFull, BuildLabExOneToken}

\* what the second query may find of the value v the first one found: the same
\* value, or one that was deleted, grew or shrank in between
Later(v) ==
    IF ~v.present THEN {NoValue}
    ELSE {v, NoValue, Value(Append(v.data, "1"))}
            \cup (IF v.data = <<>> THEN {}
                  ELSE {Value(SubSeq(v.data, 1, Len(v.data) - 1))})

NtdllStates == {[loaded |-> FALSE, hasProc |-> FALSE],
                [loaded |-> TRUE, hasProc |-> FALSE],
                [loaded |-> TRUE, hasProc |-> TRUE]}

KernelVersions == [major : {6, 10, 11}, minor : {0, 1}, build : {19041, 21999, 22000}]

LegacyNames == {<<>>, Windows7, Windows10Pro}

StableRegNames ==
    {[open |-> FALSE, pn1 |-> NoValue, pn2 |-> NoValue],
     [open |-> TRUE, pn1 |-> NoValue, pn2 |-> NoValue],
     [open |-> TRUE, pn1 |-> Value(Windows10Pro), pn2 |-> NoValue]}
        \cup {[open |-> TRUE, pn1 |-> Value(d), pn2 |-> Value(d)] : d \in Names}

NameValues == {NoValue} \cup {Value(d) : d \in Names}

FewRegBuilds ==
    {[open |-> FALSE, ubr |-> Dword(345), lab1 |-> NoValue, lab2 |-> NoValue],
     [open |-> TRUE, ubr |-> Dword(345), lab1 |-> Value(BuildLabExFull), lab2 |-> Value(BuildLabExFull)],
     [open |-> TRUE, ubr |-> NoDword, lab1 |-> NoValue, lab2 |-> NoValue],
     [open |-> TRUE, ubr |-> NoDword, lab1 |-> Value(BuildLabExFull), lab2 |-> NoValue],
     [open |-> TRUE, ubr |-> NoDword, lab1 |-> Value(BuildLabExFull), lab2 |-> Value(BuildLabExFull)],
     [open |-> TRUE, ubr |-> NoDword, lab1 |-> Value(BuildLabExOneToken), lab2 |-> Value(BuildLabExOneToken)]}

UbrValues == {NoDword, Dword(0), Dword(345)}
LabValues == {NoValue} \cup {Value(d) : d \in Labs}

NotCalled == [done |-> FALSE, r |-> [ret |-> 0, exit |-> "", log |-> <<>>]]
NotCalledReg == [done |-> FALSE, r |-> [ret |-> <<>>, exit |-> "", log |-> <<>>]]

NoneHeld == [r \in Resources |-> 0]

\* version_name_wmi at statement pc, nothing acquired yet
WmiAt(pc) ==
    /\ wmi_pc = pc
    /\ wmi_guards = <<>>
    /\ wmi_log = <<>>
    /\ wmi_records = <<>>
    /\ wmi_ret = <<>>
    /\ wmi_acq = NoneHeld
    /\ wmi_rel = NoneHeld

InitProcess ==
    /\ pRtlGetVersion = "uninit"
    /\ static_guard = GuardUninit
    /\ th_pc = [t \in Threads |-> "decl"]
    /\ th_seen = [t \in Threads |-> <<>>]
    /\ th_result = [t \in Threads |-> NoCall.info]
    /\ os_result = NoCall
    /\ os_returned = <<>>
    /\ bn_result = NotCalled
    /\ reg_result = NotCalledReg
    /\ WmiAt("idle")

\* OS_info() called, any number of times, in one fixed system state
InitOS ==
    /\ ntdll \in NtdllStates
    /\ kernelVer \in KernelVersions
    /\ legacyName \in LegacyNames
    /\ regName \in StableRegNames
    /\ regBuild \in FewRegBuilds
    /\ InitProcess

NextOS == OS_info

SpecOS == InitOS /\ [][NextOS]_vars

\* OS_info() called from NThreads threads at once, in one fixed system state
InitMT ==
    /\ ntdll \in NtdllStates
    /\ kernelVer \in KernelVersions
    /\ legacyName = Windows7
    /\ regName = [open |-> TRUE, pn1 |-> Value(Windows10ProZ), pn2 |-> Value(Windows10ProZ)]
    /\ regBuild = [open |-> TRUE, ubr |-> Dword(345), lab1 |-> NoValue, lab2 |-> NoValue]
    /\ InitProcess

NextMT ==
    \E t \in Threads :
        \/ ThBeginInit(t)
        \/ ThFinishInit(t)
        \/ ThPassDeclaration(t)
        \/ ThCall(t)

SpecMT == InitMT /\ [][NextMT]_vars

\* build_number() called in every registry state
InitBN ==
    /\ ntdll = [loaded |-> TRUE, hasProc |-> TRUE]
    /\ kernelVer = [major |-> 10, minor |-> 0, build |-> 22000]
    /\ legacyName = <<>>
    /\ regName = [open |-> FALSE, pn1 |-> NoValue, pn2 |-> NoValue]
    /\ \E o \in BOOLEAN, u \in UbrValues, v \in LabValues :
          \E l \in Later(v) : regBuild = [open |-> o, ubr |-> u, lab1 |-> v, lab2 |-> l]
    /\ InitProcess

NextBN == CallBuildNumber

SpecBN == InitBN /\ [][NextBN]_vars

\* version_name_reg() called in every registry state
InitReg ==
    /\ ntdll = [loaded |-> TRUE, hasProc |-> TRUE]
    /\ kernelVer = [major |-> 10, minor |-> 0, build |-> 22000]
    /\ legacyName = <<>>
    /\ \E o \in BOOLEAN, v \in NameValues :
          \E l \in Later(v) : regName = [open |-> o, pn1 |-> v, pn2 |-> l]
    /\ regBuild = [open |-> FALSE, ubr |-> NoDword, lab1 |-> NoValue, lab2 |-> NoValue]
    /\ InitProcess

NextReg == CallVersionNameReg

SpecReg == InitReg /\ [][NextReg]_vars

\* one call of version_name_wmi(), every COM and WMI call free to fail
InitWmi ==
    /\ ntdll = [loaded |-> TRUE, hasProc |-> TRUE]
    /\ kernelVer = [major |-> 10, minor |-> 0, build |-> 22000]
    /\ legacyName = <<>>
    /\ regName = [open |-> FALSE, pn1 |-> NoValue, pn2 |-> NoValue]
    /\ regBuild = [open |-> FALSE, ubr |-> NoDword, lab1 |-> NoValue, lab2 |-> NoValue]
    /\ pRtlGetVersion = "uninit"
    /\ static_guard = GuardUninit
    /\ th_pc = [t \in Threads |-> "decl"]
    /\ th_seen = [t \in Threads |-> <<>>]
    /\ th_result = [t \in Threads |-> NoCall.info]
    /\ os_result = NoCall
    /\ os_returned = <<>>
    /\ bn_result = NotCalled
    /\ reg_result = NotCalledReg
    /\ WmiAt("start")

NextWmi ==
    \/ WmiCoInitialize
    \/ WmiInitializeSecurity
    \/ WmiCreateLocator
    \/ WmiConnectServer
    \/ WmiSetProxyBlanket
    \/ WmiExecQuery
    \/ WmiNext
    \/ WmiGetName
    \/ WmiTruncateAndReturn

SpecWmi == InitWmi /\ [][NextWmi]_vars

-----------------------------------------------------------------------------
(* What the claims are stated with *)

IsNameResolver(e) == e \in {"version_name", "version_name_reg", "version_name_wmi"}
ResolverCalls(log) == SelectSeq(log, IsNameResolver)

ContainsSp10(s) == \E i \in 1..(Len(s) - 2) : s[i] = " " /\ s[i + 1] = "1" /\ s[i + 2] = "0"

KernelFnResolvable == ntdll.loaded /\ ntdll.hasProc

\* d, cut or NUL-padded to n characters
PaddedTo(d, n) == [i \in 1..n |-> IF i <= Len(d) THEN d[i] ELSE NUL]

\* the text of a value: its characters up to the first NUL
TextOf(d) ==
    IF \E i \in 1..Len(d) : d[i] = NUL
    THEN SubSeq(d, 1, (CHOOSE i \in 1..Len(d) : d[i] = NUL /\ \A j \in 1..(i - 1) : d[j] # NUL) - 1)
    ELSE d

\* the '.'-separated tokens of s: its maximal runs of characters other than '.'
TokenStarts(s) == {i \in 1..Len(s) : s[i] # Dot /\ (i = 1 \/ s[i - 1] = Dot)}
TokenEnd(s, b) ==
    CHOOSE e \in b..Len(s) : (\A j \in b..e : s[j] # Dot) /\ (e = Len(s) \/ s[e + 1] = Dot)
Tokens(s) ==
    LET starts == TokenStarts(s)
        start(k) == CHOOSE i \in starts : Cardinality({j \in starts : j < i}) = k - 1
    IN [k \in 1..Cardinality(starts) |-> SubSeq(s, start(k), TokenEnd(s, start(k)))]

\* the value of the decimal digits a token starts with (0 when it starts with none)
RECURSIVE DecimalPrefix(_, _)
DecimalPrefix(tok, acc) ==
    IF tok # <<>> /\ tok[1] \in {"0","1","2","3","4","5","6","7","8","9"}
    THEN DecimalPrefix(Tail(tok), 10 * acc + DigitVal(tok[1]))
    ELSE acc

\* both BuildLabEx queries succeed: the value is there, and still fits at the second
LabQueriesSucceed(rb) ==
    rb.lab1.present /\ rb.lab2.present /\ Len(rb.lab2.data) <= Len(rb.lab1.data)
NameQueriesSucceed(rn) ==
    rn.pn1.present /\ rn.pn2.present /\ Len(rn.pn2.data) <= Len(rn.pn1.data)

\* what sections 4.4 and 8 of the specification promise of build_number
ExpectedPatch(rb) ==
    IF ~rb.open THEN 0
    ELSE IF rb.ubr.present THEN rb.ubr.val
    ELSE IF ~LabQueriesSucceed(rb) THEN 0
    ELSE LET toks == Tokens(TextOf(rb.lab2.data))
         IN IF Len(toks) >= 2 THEN DecimalPrefix(toks[2], 0) ELSE 0

ExpectedVersion == IF KernelFnResolvable THEN kernelVer ELSE ZeroVersionInfo

VersionOf(i) == [major |-> i.major_version, minor |-> i.minor_version, build |-> i.build_number]

-----------------------------------------------------------------------------
(* OS_info: claims C1-C4 and C10, checked under SpecOS *)

\* C1: every OS_info call invokes exactly one display-name resolver: version_name
\* and no other when the major version is below 10, version_name_reg and no other
\* when it is 10 or more; version_name_wmi is never called.
C1_OneResolverByMajor ==
    os_result.done =>
        LET calls == ResolverCalls(os_result.log)
        IN /\ Len(calls) = 1
           /\ os_result.info.major_version < 10 =>
                 calls = <<"version_name">> /\ os_result.resolved = legacyName
           /\ os_result.info.major_version >= 10 =>
                 calls = <<"version_name_reg">> /\ Count(os_result.log, "RegOpenKeyExA") = 2
           /\ Count(os_result.log, "version_name_wmi") = 0

C1_Witness ==
    /\ os_result.done
    /\ os_result.info.major_version = 10
    /\ ResolverCalls(os_result.log) = <<"version_name_reg">>
    /\ os_result.info.full_name = Windows10Pro

\* C2: full_name differs from the resolver's output if and only if major = 10,
\* minor = 0, build >= 22000 and the output contains " 10"; "Windows 10 Pro"
\* becomes "Windows 11 Pro" at build 22000 and stays unchanged at build 19041.
C2_CorrectionIff ==
    os_result.done =>
        LET i == os_result.info
            fires == /\ i.major_version = 10 /\ i.minor_version = 0
                     /\ i.build_number >= 22000 /\ ContainsSp10(os_result.resolved)
        IN /\ (i.full_name # os_result.resolved) <=> fires
           /\ (fires /\ os_result.resolved = Windows10Pro) => i.full_name = Windows11Pro
           /\ (i.build_number = 19041 /\ os_result.resolved = Windows10Pro)
                 => i.full_name = Windows10Pro

C2_Witness ==
    /\ os_result.done
    /\ os_result.info.build_number = 22000
    /\ os_result.resolved = Windows10Pro
    /\ os_result.info.full_name = Windows11Pro

\* C3 as claimed: when the kernel version function cannot be resolved, the three
\* version fields are 0 and version_name_reg is still attempted.
C3_RegistryStillAttempted ==
    (os_result.done /\ ~KernelFnResolvable) =>
        /\ VersionOf(os_result.info) = ZeroVersionInfo
        /\ Count(os_result.log, "version_name_reg") >= 1

\* C3 as amended: when the kernel version function cannot be resolved, the three
\* version fields are 0 and the name comes from the legacy resolver version_name;
\* version_name_reg is not attempted and the registry is opened by build_number only.
C3_LegacyAttempted ==
    (os_result.done /\ ~KernelFnResolvable) =>
        /\ VersionOf(os_result.info) = ZeroVersionInfo
        /\ Count(os_result.log, "version_name") = 1
        /\ Count(os_result.log, "version_name_reg") = 0
        /\ os_result.info.full_name = legacyName

C3_Witness ==
    /\ os_result.done
    /\ ~KernelFnResolvable
    /\ kernelVer.major = 10
    /\ os_result.info.full_name = Windows7

\* C4: the kernel version function is called only when it was resolved; unresolved,
\* the three version fields are exactly 0; resolved, they are what the function filled in.
C4_CallIfPresent ==
    os_result.done =>
        /\ Count(os_result.log, "RtlGetVersion") = (IF KernelFnResolvable THEN 1 ELSE 0)
        /\ ~KernelFnResolvable =>
              /\ os_result.info.major_version = 0
              /\ os_result.info.minor_version = 0
              /\ os_result.info.build_number = 0
        /\ KernelFnResolvable => VersionOf(os_result.info) = kernelVer

C4_Witness ==
    /\ os_result.done
    /\ pRtlGetVersion = NullFn
    /\ ntdll.loaded
    /\ kernelVer.major = 11
    /\ os_result.info.major_version = 0

\* the name resolver OS_info chose failed
NameResolverFailed ==
    IF ExpectedVersion.major < 10 THEN legacyName = <<>>
    ELSE ~regName.open \/ ~NameQueriesSucceed(regName)

\* the build-identifier resolver failed
BuildResolverFailed ==
    \/ ~regBuild.open
    \/ ~regBuild.ubr.present /\ ~LabQueriesSucceed(regBuild)

\* C10: a failing name resolver gives full_name = "" with the version fields and
\* patch_number still populated; a failing build-identifier resolver gives
\* patch_number = 0 with the name and the version fields still populated;
\* build_number is called exactly once in every call, and family_name is "Windows NT".
C10_FailureDegradesOneField ==
    os_result.done =>
        LET i == os_result.info
        IN /\ i.family_name = "Windows NT"
           /\ Count(os_result.log, "build_number") = 1
           /\ VersionOf(i) = ExpectedVersion
           /\ i.patch_number = ExpectedPatch(regBuild)
           /\ NameResolverFailed => i.full_name = <<>>
           /\ BuildResolverFailed =>
                 /\ i.patch_number = 0
                 /\ ~NameResolverFailed => i.full_name # <<>> \/ os_result.resolved = <<>>
           /\ ~NameResolverFailed /\ ExpectedVersion.major < 10 => i.full_name = legacyName
           /\ ~NameResolverFailed /\ ExpectedVersion.major >= 10 =>
                 Len(i.full_name) = Len(regName.pn1.data)

C10_Witness ==
    /\ os_result.done
    /\ NameResolverFailed
    /\ os_result.info.major_version = 10
    /\ os_result.info.full_name = <<>>
    /\ os_result.info.patch_number = 345

-----------------------------------------------------------------------------
(* build_number: claims C5, C7 and C8, checked under SpecBN *)

\* C5: on every exit path of build_number the key handle is closed exactly once
\* if the key was opened, and RegCloseKey is never called if the open failed.
C5_ClosedExactlyOnce ==
    bn_result.done =>
        /\ bn_result.r.exit \in {"open_failed", "ubr", "size_failed", "fill_failed", "parsed"}
        /\ Count(bn_result.r.log, "RegCloseKey") = (IF regBuild.open THEN 1 ELSE 0)

\* C7: when the key opens and the "UBR" query succeeds, build_number returns that
\* value as it is and never queries "BuildLabEx", whatever it holds (345 gives 345).
C7_PrimaryValueAsIs ==
    (bn_result.done /\ regBuild.open /\ regBuild.ubr.present) =>
        /\ bn_result.r.ret = regBuild.ubr.val
        /\ Count(bn_result.r.log, "RegQueryValueExA:BuildLabEx") = 0
        /\ Count(bn_result.r.log, "RegQueryValueExA:UBR") = 1

C7_Witness ==
    /\ bn_result.done
    /\ regBuild.open
    /\ regBuild.ubr = Dword(345)
    /\ regBuild.lab1 = Value(BuildLabExFull)
    /\ bn_result.r.ret = 345

\* C8: when "UBR" cannot be read, build_number queries "BuildLabEx" for its size
\* and then for its data, and returns the second '.'-token of the string as a
\* base-10 number ("22000.1.amd64fre.co_release.210604-1628" gives 1); it returns 0
\* with fewer than two tokens ("22000"), if either query fails, or if the key
\* cannot be opened.
C8_FallbackSecondToken ==
    (bn_result.done /\ ~(regBuild.open /\ regBuild.ubr.present)) =>
        LET r == bn_result.r
            queries == Count(r.log, "RegQueryValueExA:BuildLabEx")
        IN /\ r.ret = ExpectedPatch(regBuild)
           /\ ~regBuild.open => r.ret = 0 /\ queries = 0
           /\ (regBuild.open /\ ~regBuild.lab1.present) => r.ret = 0 /\ queries = 1
           /\ (regBuild.open /\ regBuild.lab1.present) => queries = 2
           /\ (regBuild.open /\ ~LabQueriesSucceed(regBuild)) => r.ret = 0
           /\ (regBuild.open /\ LabQueriesSucceed(regBuild)) =>
                 /\ regBuild.lab2.data = BuildLabExFull => r.ret = 1
                 /\ regBuild.lab2.data = BuildLabExOneToken => r.ret = 0
                 /\ Len(Tokens(TextOf(regBuild.lab2.data))) < 2 => r.ret = 0

C8_Witness ==
    /\ bn_result.done
    /\ regBuild.open
    /\ ~regBuild.ubr.present
    /\ regBuild.lab1 = Value(BuildLabExFull)
    /\ regBuild.lab2 = Value(BuildLabExFull)
    /\ bn_result.r.exit = "parsed"
    /\ bn_result.r.ret = 1

-----------------------------------------------------------------------------
(* version_name_reg: claim C9, checked under SpecReg *)

\* C9: version_name_reg closes the key exactly once on every exit path after a
\* successful open and never after a failed one; it returns the empty string if
\* the key cannot be opened or either "ProductName" query fails, and otherwise the
\* value the second query read into a buffer of exactly the size the first reported.
C9_RegNameClosesAndReturns ==
    reg_result.done =>
        LET r == reg_result.r
        IN /\ Count(r.log, "RegCloseKey") = (IF regName.open THEN 1 ELSE 0)
           /\ (~regName.open \/ ~NameQueriesSucceed(regName)) => r.ret = <<>>
           /\ (regName.open /\ NameQueriesSucceed(regName)) =>
                 /\ Len(r.ret) = Len(regName.pn1.data)
                 /\ r.ret = PaddedTo(regName.pn2.data, Len(regName.pn1.data))
                 /\ Count(r.log, "RegQueryValueExA:ProductName") = 2

C9_Witness ==
    /\ reg_result.done
    /\ regName.open
    /\ regName.pn1 = Value(Windows10ProZ)
    /\ regName.pn2 = Value(Windows10Pro)
    /\ reg_result.r.ret = Windows10ProZ

-----------------------------------------------------------------------------
(* version_name_wmi: claim C6, checked under SpecWmi *)

\* C6: on every exit path of version_name_wmi every resource acquired so far has
\* been released when the function returns, and nothing that was not acquired is
\* ever released.
C6_AcquiredReleasedNothingElse ==
    /\ \A r \in Resources : wmi_rel[r] <= wmi_acq[r]
    /\ wmi_pc = "returned" =>
          /\ wmi_guards = <<>>
          /\ \A r \in Resources : wmi_rel[r] = wmi_acq[r]

\* C11: with the external state fixed, every OS_info() call of a run returns the
\* same OS_info_t: the first call, which resolves the kernel function pointer, and
\* every later call, which reuses the stored pointer
C11_RepeatedCallsEqual ==
    /\ \A i, j \in 1..Len(os_returned) : os_returned[i] = os_returned[j]
    /\ os_result.done => os_returned[Len(os_returned)] = os_result.info
    /\ Len(os_returned) >= 1 => pRtlGetVersion = ResolveRtlGetVersion(ntdll)

\* three calls were made where the pointer resolves and the version is real
C11_Witness ==
    /\ Len(os_returned) = MaxCalls
    /\ MaxCalls >= 3
    /\ pRtlGetVersion = RtlGetVersionFn
    /\ os_returned[1].major_version = 10
    /\ os_returned[MaxCalls].full_name = Windows11Pro

\* the part of s before its first '|', or s when it has none
BeforeFirstSep(s) ==
    LET k == CHOOSE n \in 0..Len(s) :
                 /\ \A i \in 1..n : s[i] # "|"
                 /\ n = Len(s) \/ s[n + 1] = "|"
    IN SubSeq(s, 1, k)

\* C12: version_name_wmi returns the name it holds after the loop cut before its
\* first '|': "Microsoft Windows Server 2019 Standard|C:\Windows|\Device\Harddisk0"
\* gives "Microsoft Windows Server 2019 Standard"; a name without '|' is returned
\* as it is
C12_TruncatedAtFirstSep ==
    [][wmi_pc = "after_loop" =>
          /\ wmi_pc' = "returned"
          /\ wmi_ret' = BeforeFirstSep(wmi_ret)
          /\ wmi_ret = Server2019Full => wmi_ret' = Server2019
          /\ (\A i \in 1..Len(wmi_ret) : wmi_ret[i] # "|") => wmi_ret' = wmi_ret]_vars

\* the call returned the Server 2019 name, read from a record with two separators
C12_Witness ==
    /\ wmi_pc = "returned"
    /\ wmi_records # <<>>
    /\ wmi_records[Len(wmi_records)] = Server2019Full
    /\ wmi_ret = Server2019

\* where the first " 10" of s starts (1-based)
FirstSp10(s) ==
    CHOOSE p \in 1..(Len(s) - 2) :
        /\ SubSeq(s, p, p + 2) = <<" ", "1", "0">>
        /\ \A q \in 1..(p - 1) : SubSeq(s, q, q + 2) # <<" ", "1", "0">>

\* C13: when the Windows 11 correction fires, full_name has the length of the
\* resolved name and differs from it in one character only: the '0' two places
\* after the start of the first " 10" has become '1'; every other character,
\* later occurrences of " 10" included, is as resolved
C13_OneCharacterChanged ==
    LET i == os_result.info
        r == os_result.resolved
    IN (/\ os_result.done
        /\ i.major_version = 10 /\ i.minor_version = 0 /\ i.build_number >= 22000
        /\ ContainsSp10(r)) =>
           /\ Len(i.full_name) = Len(r)
           /\ r[FirstSp10(r) + 2] = "0"
           /\ i.full_name[FirstSp10(r) + 2] = "1"
           /\ \A j \in 1..Len(r) : j # FirstSp10(r) + 2 => i.full_name[j] = r[j]
           /\ r = Win10Twice => i.full_name = <<"W", " ", "1", "1", " ", "1", "0">>

\* the correction fired on a name with two occurrences of " 10"
C13_Witness ==
    /\ os_result.done
    /\ os_result.info.build_number = 22000
    /\ os_result.resolved = Win10Twice
    /\ os_result.info.full_name = <<"W", " ", "1", "1", " ", "1", "0">>

\* C14: however the OS_info() calls of several threads interleave, every call
\* reads the one value the initialiser resolved, never the pointer before its
\* initialisation, and the pointer, once stored, keeps that value
C14_OnePointerForAllThreads ==
    /\ \A t \in Threads : \A k \in 1..Len(th_seen[t]) :
           /\ th_seen[t][k] # "uninit"
           /\ th_seen[t][k] = ResolveRtlGetVersion(ntdll)
    /\ \A t, u \in Threads : \A k \in 1..Len(th_seen[t]) : \A l \in 1..Len(th_seen[u]) :
           th_seen[t][k] = th_seen[u][l]
    /\ static_guard.state = "done" => pRtlGetVersion = ResolveRtlGetVersion(ntdll)
    /\ static_guard.state # "done" => pRtlGetVersion = "uninit"

\* thread 1 ran the initialiser and has not read the pointer yet; thread 2, which
\* entered meanwhile, has completed a call with the resolved pointer
C14_Witness ==
    /\ static_guard = GuardDone(1)
    /\ th_pc[1] = "read"
    /\ th_seen[1] = <<>>
    /\ th_seen[2] = <<RtlGetVersionFn>>
    /\ th_result[2].major_version = 10

IsCoInitializeEx(e) ==
    e.call \in {"CoInitializeEx:MULTITHREADED", "CoInitializeEx:APARTMENTTHREADED"}

\* how many times a call was made
CallCount(log, name) == Cardinality({i \in 1..Len(log) : log[i].call = name})

\* the steps between initialisation and the iteration, in the order of the source
SetupSteps ==
    <<"CoInitializeSecurity", "CoCreateInstance", "ConnectServer", "CoSetProxyBlanket", "ExecQuery">>

\* C15: version_name_wmi calls CoInitializeEx once, multithreaded, and a second
\* time, apartment-threaded, exactly when the first call returned
\* RPC_E_CHANGED_MODE; no other step is made twice; when the last initialisation
\* result is a failure it returns the empty string having made no other call,
\* CoUninitialize included
C15_InitialisedAtMostTwice ==
    wmi_pc \notin {"idle", "start"} =>
        LET inits == SelectSeq(wmi_log, IsCoInitializeEx)
            n == Len(inits)
        IN /\ n \in {1, 2}
           /\ SubSeq(wmi_log, 1, n) = inits
           /\ inits[1].call = "CoInitializeEx:MULTITHREADED"
           /\ n = 2 <=> inits[1].hr = RPC_E_CHANGED_MODE
           /\ n = 2 => inits[2].call = "CoInitializeEx:APARTMENTTHREADED"
           /\ \A k \in 1..Len(SetupSteps) : CallCount(wmi_log, SetupSteps[k]) <= 1
           /\ FAILED(inits[n].hr) =>
                 /\ wmi_pc = "returned"
                 /\ wmi_ret = <<>>
                 /\ wmi_log = inits
                 /\ wmi_acq = NoneHeld
           /\ ~FAILED(inits[n].hr) => wmi_acq["com"] = 1

\* the retry was made after RPC_E_CHANGED_MODE and failed too
C15_Witness ==
    /\ wmi_pc = "returned"
    /\ wmi_ret = <<>>
    /\ wmi_log = <<Call("CoInitializeEx:MULTITHREADED", RPC_E_CHANGED_MODE),
                   Call("CoInitializeEx:APARTMENTTHREADED", E_FAIL)>>

IsSetupStep(e) == \E k \in 1..Len(SetupSteps) : e.call = SetupSteps[k]
IsIterationStep(e) == e.call \in {"Next", "Get"}
IsStep(e) == IsCoInitializeEx(e) \/ IsSetupStep(e) \/ IsIterationStep(e)

\* a result that is a failure, other than RPC_E_TOO_LATE from CoInitializeSecurity
FatalResult(e) ==
    FAILED(e.hr) /\ ~(e.call = "CoInitializeSecurity" /\ e.hr = RPC_E_TOO_LATE)

\* the setup steps made are the first ones of the source, in its order, and the
\* iteration begins after ExecQuery only
StepsInOrder ==
    LET made == SelectSeq(wmi_log, IsSetupStep)
    IN /\ Len(made) <= Len(SetupSteps)
       /\ \A k \in 1..Len(made) : made[k].call = SetupSteps[k]
       /\ \A i \in 1..Len(wmi_log) : IsIterationStep(wmi_log[i]) =>
             \E j \in 1..(i - 1) : wmi_log[j].call = "ExecQuery" /\ ~FAILED(wmi_log[j].hr)

\* after the call at i no step was attempted, and the function returns the empty string
EndsEmptyAfter(i) ==
    /\ \A j \in (i + 1)..Len(wmi_log) : ~IsStep(wmi_log[j])
    /\ wmi_pc \in {"after_loop", "returned"}
    /\ wmi_pc = "returned" => wmi_ret = <<>>

\* C16, as claimed: the steps run in order, and a failure at any of them, the
\* iteration included, returns the empty string without a later step;
\* RPC_E_TOO_LATE from CoInitializeSecurity is not a failure
C16_AnyFailureReturnsEmpty ==
    /\ StepsInOrder
    /\ \A i \in 1..Len(wmi_log) :
          LET e == wmi_log[i]
          IN ((IsSetupStep(e) \/ e.call = "Next") /\ FatalResult(e)) => EndsEmptyAfter(i)

\* C16, amended: the steps run in order; a failure of a step from
\* CoInitializeSecurity to ExecQuery returns the empty string without a later
\* step, RPC_E_TOO_LATE from CoInitializeSecurity excepted, after which the
\* locator is created; a failure of Next ends the iteration without a later
\* step, and the function returns what it holds from the records read before,
\* the empty string when there were none
C16_SetupFailureReturnsEmpty ==
    /\ StepsInOrder
    /\ \A i \in 1..Len(wmi_log) :
          LET e == wmi_log[i]
          IN /\ (IsSetupStep(e) /\ FatalResult(e)) =>
                   /\ EndsEmptyAfter(i)
                   /\ wmi_pc = "returned"
             /\ e = Call("CoInitializeSecurity", RPC_E_TOO_LATE) =>
                   \/ wmi_pc = "locator"
                   \/ i < Len(wmi_log) /\ wmi_log[i + 1].call = "CoCreateInstance"
             /\ (e.call = "Next" /\ FAILED(e.hr)) =>
                   /\ \A j \in (i + 1)..Len(wmi_log) : ~IsStep(wmi_log[j])
                   /\ wmi_pc \in {"after_loop", "returned"}
                   /\ wmi_records = <<>> => wmi_ret = <<>>

\* RPC_E_TOO_LATE was passed over and a later step, ConnectServer, failed
C16_Witness ==
    /\ wmi_pc = "returned"
    /\ wmi_ret = <<>>
    /\ \E i \in 1..Len(wmi_log) : wmi_log[i] = Call("CoInitializeSecurity", RPC_E_TOO_LATE)
    /\ \E i \in 1..Len(wmi_log) : wmi_log[i] = Call("ConnectServer", E_FAIL)
    /\ wmi_rel["locator"] = 1 /\ wmi_rel["com"] = 1

\* the indices of the log at which Next handed out a record
RecordFetches == {i \in 1..Len(wmi_log) : wmi_log[i] = Call("Next", S_OK)}

\* C17: for every record Next hands out, VariantClear and the release of the
\* record are each called once, before the next Next; after the loop ret is the
\* Name of the last record handed out, or empty when there was none
C17_LastRecordKept ==
    /\ wmi_pc \in {"next", "after_loop", "returned"} =>
          /\ \A i \in RecordFetches :
                /\ i + 3 <= Len(wmi_log)
                /\ wmi_log[i + 1].call = "Get"
                /\ wmi_log[i + 2].call = "VariantClear"
                /\ wmi_log[i + 3].call = "IWbemClassObject::Release"
          /\ CallCount(wmi_log, "VariantClear") = Cardinality(RecordFetches)
          /\ CallCount(wmi_log, "IWbemClassObject::Release") = Cardinality(RecordFetches)
          /\ Len(wmi_records) = Cardinality(RecordFetches)
    /\ wmi_pc = "after_loop" =>
          wmi_ret = (IF wmi_records = <<>> THEN <<>>
                     ELSE narrowen_bstring(wmi_records[Len(wmi_records)]))

\* where in the log a call was made, for a call made once
PositionOf(name) == CHOOSE i \in 1..Len(wmi_log) : wmi_log[i].call = name

\* the step succeeded, so what it acquires is held
Succeeded(step) == \E i \in 1..Len(wmi_log) : wmi_log[i].call = step /\ ~FAILED(wmi_log[i].hr)

ComInitialised ==
    LET inits == SelectSeq(wmi_log, IsCoInitializeEx)
    IN inits # <<>> /\ ~FAILED(inits[Len(inits)].hr)

\* the COM objects held for the whole call, in the order acquired: the step
\* acquiring each and the call releasing it
HeldObjects ==
    <<[by |-> "CoCreateInstance", release |-> "IWbemLocator::Release"],
      [by |-> "ConnectServer", release |-> "IWbemServices::Release"],
      [by |-> "ExecQuery", release |-> "IEnumWbemClassObject::Release"]>>

\* C18: an invocation of version_name_wmi calls CoUninitialize once when COM
\* initialisation succeeded and never otherwise; it is the last call of the
\* invocation, after the releases of the iterator, the service connection and
\* the locator, which run in that order, the reverse of their acquisition
C18_UninitialisedLast ==
    /\ wmi_pc # "returned" => CallCount(wmi_log, "CoUninitialize") = 0
    /\ wmi_pc = "returned" =>
          /\ CallCount(wmi_log, "CoUninitialize") = (IF ComInitialised THEN 1 ELSE 0)
          /\ ComInitialised => wmi_log[Len(wmi_log)].call = "CoUninitialize"
          /\ \A k \in 1..Len(HeldObjects) :
                /\ CallCount(wmi_log, HeldObjects[k].release)
                      = (IF Succeeded(HeldObjects[k].by) THEN 1 ELSE 0)
                /\ Succeeded(HeldObjects[k].by) =>
                      /\ PositionOf(HeldObjects[k].by) < PositionOf(HeldObjects[k].release)
                      /\ PositionOf(HeldObjects[k].release) < PositionOf("CoUninitialize")
          /\ \A k, l \in 1..Len(HeldObjects) :
                (k < l /\ Succeeded(HeldObjects[l].by)) =>
                    PositionOf(HeldObjects[l].release) < PositionOf(HeldObjects[k].release)
          /\ \A i \in 1..Len(wmi_log) : \A k \in 1..Len(HeldObjects) :
                (Succeeded(HeldObjects[k].by) /\ IsStep(wmi_log[i])) =>
                    i < PositionOf(HeldObjects[k].release)

\* a call that acquired all three objects has returned
C18_Witness ==
    /\ wmi_pc = "returned"
    /\ Len(wmi_log) >= 4
    /\ Succeeded("ExecQuery")
    /\ [i \in 1..4 |-> wmi_log[Len(wmi_log) - 4 + i].call] =
          <<"IEnumWbemClassObject::Release", "IWbemServices::Release",
            "IWbemLocator::Release", "CoUninitialize">>

====
